---- MODULE Spec2Model ----
(***************************************************************************)
(* Vertex Group Filter Tool (src/vertex_group_filter.py).                  *)
(*                                                                         *)
(* The add-on's five operators are modelled as actions over the host       *)
(* state they read and write: the base mesh object's vertex-group catalog, *)
(* its vertices and their selection, the scene's objects and their         *)
(* selection, the interaction mode, and the add-on's own list of           *)
(* FilteredItems.  Text is a sequence of one-character strings, so that    *)
(* strip(), lower(), "in" and re.sub are computed character by character.  *)
(***************************************************************************)
EXTENDS Integers, Sequences, FiniteSets, TLC

VARIABLES
    objType,   \* type of context.object: "NONE" (no object), "MESH", "CURVE"
    mode,      \* obj.mode of the active object: "EDIT" or "OBJECT"
    groups,    \* base_obj.vertex_groups: sequence of [name, members]
    verts,     \* vertices of the base mesh
    elems,     \* edges/faces of the base mesh, each the set of its vertices
    items,     \* props.filtered_groups: sequence of [name, group_index, selected]
    vsel,      \* selected vertices of the base mesh
    objects,   \* objects created by separation: sequence of [name, verts, groups]
    objsel,    \* selected objects: 0 is the base object, k is objects[k]
    ret        \* what the last operator call was given and what it returned

vars == <<objType, mode, groups, verts, elems, items, vsel, objects, objsel, ret>>

(***************************************************************************)
(* Bounds of the model.                                                    *)
(***************************************************************************)
NumVerts == 2
MaxObjects == 1
MaxNameLen == 5

Verts == 1..NumVerts

(***************************************************************************)
(* Text: str.strip(), str.lower(), the "in" operator.                      *)
(***************************************************************************)
LowerChar(c) == CASE c = "A" -> "a" [] c = "B" -> "b" [] OTHER -> c

Lower(s) == [i \in 1..Len(s) |-> LowerChar(s[i])]

IsSpace(c) == c = " "

RECURSIVE LStrip(_)
LStrip(s) == IF s # <<>> /\ IsSpace(Head(s)) THEN LStrip(Tail(s)) ELSE s

RECURSIVE RStrip(_)
RStrip(s) ==
    IF s # <<>> /\ IsSpace(s[Len(s)]) THEN RStrip(SubSeq(s, 1, Len(s) - 1)) ELSE s

Strip(s) == RStrip(LStrip(s))

IsSubstring(s, t) ==
    \E i \in 1..(Len(t) - Len(s) + 1) : SubSeq(t, i, i + Len(s) - 1) = s

(***************************************************************************)
(* The host's naming rule.  Assigning vg.name or obj.name never produces   *)
(* two groups of one object, or two objects, with the same name: an empty  *)
(* name becomes the default name, and a name already taken has its numeric *)
(* suffix ".NNN" replaced by the first free one above it.                  *)
(***************************************************************************)
Digits == <<"1", "2", "3", "4", "5", "6", "7", "8", "9">>

DigitOf(c) == IF \E d \in 1..Len(Digits) : Digits[d] = c
              THEN CHOOSE d \in 1..Len(Digits) : Digits[d] = c
              ELSE 0

Suffix(n) == <<".", "0", "0", Digits[n]>>

\* the name without its ".00d" suffix, and the number of that suffix (0 if none)
SplitNumber(name) ==
    LET n == Len(name) IN
    IF n > 4 /\ name[n-3] = "." /\ name[n-2] = "0" /\ name[n-1] = "0"
             /\ DigitOf(name[n]) > 0
    THEN [left |-> SubSeq(name, 1, n - 4), number |-> DigitOf(name[n])]
    ELSE [left |-> name, number |-> 0]

DefaultGroupName == <<"G", "r", "o", "u", "p">>

UniqueName(name, taken, default) ==
    LET nm == IF name = <<>> THEN default ELSE name
        sp == SplitNumber(nm)
        free == {k \in 1..Len(Digits) :
                    k > sp.number /\ (sp.left \o Suffix(k)) \notin taken}
    IN  IF nm \notin taken THEN nm
        ELSE sp.left \o Suffix(CHOOSE k \in free : \A j \in free : k <= j)

GroupNames(gs) == {gs[i].name : i \in 1..Len(gs)}

\* vg.name = new_name on the group at 1-based position p
SetGroupName(gs, p, new_name) ==
    [gs EXCEPT ![p].name =
        UniqueName(new_name, {gs[i].name : i \in (1..Len(gs)) \ {p}}, DefaultGroupName)]

(***************************************************************************)
(* _require_edit_mesh, _preserve_mode and the host's mode_set.             *)
(***************************************************************************)
ContextMode == IF mode = "OBJECT" THEN "OBJECT"
               ELSE IF objType = "MESH" THEN "EDIT_MESH" ELSE "EDIT_CURVE"

NoError == "ok"

RequireEditMeshNoModeTest(otype, cmode) ==
    IF otype = "NONE" \/ otype # "MESH" THEN "Select a mesh object with vertex groups."
    ELSE NoError

RequireEditMesh(otype, cmode) ==
    IF otype = "NONE" \/ otype # "MESH" THEN "Select a mesh object with vertex groups."
    ELSE IF cmode # "EDIT_MESH" THEN "Switch to Edit Mode to use the filter."
    ELSE NoError

\* bpy.ops.object.mode_set(mode=m)
ModeSet(cur, m) == m

\* the restore() closure of _preserve_mode
RestoreMode(start_mode, cur) ==
    IF start_mode # "" /\ cur # start_mode THEN ModeSet(cur, start_mode) ELSE cur

Poll == objType # "NONE" /\ objType = "MESH" /\ ContextMode = "EDIT_MESH"

(***************************************************************************)
(* Host selection operators on the active vertex group.                    *)
(* An active_index outside the catalog names no group: the operators then  *)
(* find nothing to select or deselect.                                     *)
(***************************************************************************)
ActiveMembers(gs, active_index) ==
    IF active_index >= 0 /\ active_index < Len(gs)
    THEN gs[active_index + 1].members ELSE {}

\* bpy.ops.object.vertex_group_select()
VertexGroupSelect(sel, gs, active_index) == sel \cup ActiveMembers(gs, active_index)

\* bpy.ops.object.vertex_group_deselect()
VertexGroupDeselect(sel, gs, active_index) == sel \ ActiveMembers(gs, active_index)

(***************************************************************************)
(* What an operator call leaves in ret: the operator, its status and the   *)
(* warning it reported, the inputs it read (text, repl, item, policy), and *)
(* what the properties below need                                          *)
(* of the state it started from.  preSel and preFlag are the vertex        *)
(* selection and the item's flag before a toggle; twice says that the call *)
(* before was a finished toggle of the same item.  turns has one entry per *)
(* selected item of a separation, nobj is the number of separated objects  *)
(* before it.                                                              *)
(***************************************************************************)
Ret(op, status) ==
    [op |-> op, status |-> status, report |-> "", text |-> <<>>, repl |-> <<>>, item |-> -1,
     preSel |-> {}, preFlag |-> FALSE, twice |-> FALSE,
     count |-> 0, names |-> <<>>, turns |-> <<>>,
     policy |-> FALSE, nobj |-> 0]

(***************************************************************************)
(* VGFILTER_OT_Filter.execute                                              *)
(***************************************************************************)
NameMatchesCaseSensitive(filter_text, name) == IsSubstring(filter_text, name)

\* filter_text in vg.name.lower()
NameMatches(filter_text, name) == IsSubstring(filter_text, Lower(name))

Candidates(gs, filter_text) ==
    IF filter_text = <<>> THEN gs
    ELSE SelectSeq(gs, LAMBDA vg : NameMatches(filter_text, vg.name))

\* obj.vertex_groups[name].index: the first group of that name, 0-based
IndexByName(gs, name) ==
    (CHOOSE i \in 1..Len(gs) :
        gs[i].name = name /\ \A j \in 1..(i - 1) : gs[j].name # name) - 1

FilterItems(gs, text) ==
    LET filter_text == Lower(Strip(text))
        candidates == Candidates(gs, filter_text)
    IN  [k \in 1..Len(candidates) |->
            [name |-> candidates[k].name,
             group_index |-> IndexByName(gs, candidates[k].name),
             selected |-> FALSE]]

Filter(text) ==
    /\ Poll
    /\ items' = FilterItems(groups, text)
    /\ ret' = [Ret("filter", "FINISHED") EXCEPT !.text = text]
    /\ UNCHANGED <<objType, mode, groups, verts, elems, vsel, objects, objsel>>

(***************************************************************************)
(* VGFILTER_OT_ToggleSelect.execute                                        *)
(***************************************************************************)
ModeLeftInObjectMode(cur) == "OBJECT"

\* _preserve_mode, mode_set(mode=start_mode) and restore_mode() around the
\* selection calls of ToggleSelect (189, 197-200) and SelectAll (224, 232-235)
ModeAfterSelection(cur) ==
    LET start_mode == cur IN
    RestoreMode(start_mode, IF start_mode # "" THEN ModeSet(cur, start_mode) ELSE cur)

ToggleSelectionDeselectAll(sel, gs, item) ==
    IF item.selected THEN VertexGroupSelect(sel, gs, item.group_index) ELSE {}

\* lines 190-195: item is the item after its flag was flipped
ToggleSelection(sel, gs, item) ==
    IF item.selected THEN VertexGroupSelect(sel, gs, item.group_index)
    ELSE VertexGroupDeselect(sel, gs, item.group_index)

ToggleSelect(item_index) ==
    LET error == RequireEditMesh(objType, ContextMode) IN
    IF error # NoError THEN
        /\ ret' = [Ret("toggle", "CANCELLED") EXCEPT !.report = error]
        /\ UNCHANGED <<objType, mode, groups, verts, elems, items, vsel, objects, objsel>>
    ELSE IF item_index < 0 \/ item_index >= Len(items) THEN
        /\ ret' = [Ret("toggle", "CANCELLED") EXCEPT !.item = item_index]
        /\ UNCHANGED <<objType, mode, groups, verts, elems, items, vsel, objects, objsel>>
    ELSE
        LET p == item_index + 1
            flipped == [items[p] EXCEPT !.selected = ~items[p].selected]
        IN  /\ items' = [items EXCEPT ![p] = flipped]
            /\ vsel' = ToggleSelection(vsel, groups, flipped)
            /\ mode' = ModeAfterSelection(mode)
            /\ ret' = LET again == /\ ret.op = "toggle"
                                     /\ ret.status = "FINISHED"
                                     /\ ret.item = item_index
                       IN  [Ret("toggle", "FINISHED") EXCEPT
                              !.item = item_index, !.preSel = vsel,
                              !.preFlag = items[p].selected,
                              !.twice = again]
            /\ UNCHANGED <<objType, groups, verts, elems, objects, objsel>>

(***************************************************************************)
(* VGFILTER_OT_SelectAll.execute                                           *)
(***************************************************************************)
RECURSIVE SelectEach(_, _, _, _)
\* lines 227-230, from item k on
SelectEach(k, its, gs, sel) ==
    IF k > Len(its) THEN sel
    ELSE SelectEach(k + 1, its, gs, VertexGroupSelect(sel, gs, its[k].group_index))

SelectAllSelectionKeepsOld(sel, its, gs) == SelectEach(1, its, gs, sel)

\* lines 225-230: mesh.select_all(action="DESELECT"), then one select per item
SelectAllSelection(sel, its, gs) == SelectEach(1, its, gs, {})

SelectAll ==
    LET error == RequireEditMesh(objType, ContextMode) IN
    IF error # NoError THEN
        /\ ret' = [Ret("select_all", "CANCELLED") EXCEPT !.report = error]
        /\ UNCHANGED <<objType, mode, groups, verts, elems, items, vsel, objects, objsel>>
    ELSE
        /\ items' = [k \in 1..Len(items) |-> [items[k] EXCEPT !.selected = TRUE]]
        /\ vsel' = SelectAllSelection(vsel, items, groups)
        /\ mode' = ModeAfterSelection(mode)
        /\ ret' = [Ret("select_all", "FINISHED") EXCEPT !.preSel = vsel]
        /\ UNCHANGED <<objType, groups, verts, elems, objects, objsel>>

(***************************************************************************)
(* VGFILTER_OT_ReplaceInNames.execute                                      *)
(*                                                                         *)
(* pattern = re.compile(re.escape(search), re.IGNORECASE) matches the      *)
(* literal search text in any letter case.  pattern.sub(replacement, name) *)
(* reads replacement as a template: a backslash starts an escape.          *)
(***************************************************************************)
PatternMatchAt(search, name, i) ==
    /\ i + Len(search) - 1 <= Len(name)
    /\ Lower(SubSeq(name, i, i + Len(search) - 1)) = Lower(search)

\* pattern.search(vg.name)
PatternSearch(search, name) == \E i \in 1..Len(name) : PatternMatchAt(search, name, i)

AsciiLetters == {"a", "b", "n", "A", "B", "G", "r", "o", "u", "p", "O"}

\* the escapes a template knows among the letters above: \a, \b, \n and \\
TemplateEscape(c) ==
    CASE c = "a" -> "BEL" [] c = "b" -> "BS" [] c = "n" -> "LF" [] c = "\\" -> "\\"

RECURSIVE ParseTemplate(_)
\* the text a template stands for, or the error re raises for it
ParseTemplate(r) ==
    IF r = <<>> THEN [error |-> FALSE, text |-> <<>>]
    ELSE IF Head(r) # "\\" THEN
        LET rest == ParseTemplate(Tail(r)) IN
        [error |-> rest.error, text |-> <<Head(r)>> \o rest.text]
    ELSE IF Len(r) = 1 THEN [error |-> TRUE, text |-> <<>>]
    ELSE
        LET c == r[2]
            rest == ParseTemplate(SubSeq(r, 3, Len(r)))
        IN  IF c \in {"a", "b", "n", "\\"} THEN
                [error |-> rest.error, text |-> <<TemplateEscape(c)>> \o rest.text]
            ELSE IF c \in AsciiLetters \/ DigitOf(c) > 0 THEN
                [error |-> TRUE, text |-> <<>>]
            ELSE [error |-> rest.error, text |-> <<"\\", c>> \o rest.text]

RECURSIVE ReplaceFrom(_, _, _, _)
\* leftmost, non-overlapping replacement of the matches of search from position i
ReplaceFrom(search, text, name, i) ==
    IF i > Len(name) THEN <<>>
    ELSE IF PatternMatchAt(search, name, i)
         THEN text \o ReplaceFrom(search, text, name, i + Len(search))
         ELSE <<name[i]>> \o ReplaceFrom(search, text, name, i + 1)

\* pattern.sub(replacement, name)
PatternSub(search, replacement, name) ==
    LET t == ParseTemplate(replacement) IN
    IF t.error THEN [error |-> TRUE, text |-> <<>>]
    ELSE [error |-> FALSE, text |-> ReplaceFrom(search, t.text, name, 1)]

RECURSIVE RenameLoop(_, _, _, _, _, _)
\* lines 268-280, from item k on
RenameLoop(k, gs, its, renamed, search, replacement) ==
    IF k > Len(its) THEN [groups |-> gs, items |-> its, renamed |-> renamed, error |-> FALSE]
    ELSE IF its[k].group_index >= Len(gs) THEN
        RenameLoop(k + 1, gs, its, renamed, search, replacement)
    ELSE
        LET p == its[k].group_index + 1
            vg == gs[p]
        IN  IF ~PatternSearch(search, vg.name) THEN
                RenameLoop(k + 1, gs, its, renamed, search, replacement)
            ELSE
                LET new_name == PatternSub(search, replacement, vg.name) IN
                IF new_name.error THEN
                    [groups |-> gs, items |-> its, renamed |-> renamed, error |-> TRUE]
                ELSE IF new_name.text # vg.name THEN
                    RenameLoop(k + 1, SetGroupName(gs, p, new_name.text),
                               [its EXCEPT ![k].name = new_name.text],
                               renamed + 1, search, replacement)
                ELSE RenameLoop(k + 1, gs, its, renamed, search, replacement)

ReplaceInNames(filter_text, replacement) ==
    LET error == RequireEditMesh(objType, ContextMode)
        search == Strip(filter_text)
    IN
    IF error # NoError THEN
        /\ ret' = [Ret("replace", "CANCELLED") EXCEPT !.report = error]
        /\ UNCHANGED <<objType, mode, groups, verts, elems, items, vsel, objects, objsel>>
    ELSE IF search = <<>> THEN
        /\ ret' = [Ret("replace", "CANCELLED") EXCEPT !.text = filter_text]
        /\ UNCHANGED <<objType, mode, groups, verts, elems, items, vsel, objects, objsel>>
    ELSE
        \E r \in {RenameLoop(1, groups, items, 0, search, replacement)} :
        /\ \A i \in 1..Len(r.groups) : Len(r.groups[i].name) <= MaxNameLen
        /\ groups' = r.groups
        /\ items' = r.items
        /\ ret' = [Ret("replace", IF r.error THEN "ERROR" ELSE "FINISHED") EXCEPT
                      !.text = filter_text, !.repl = replacement, !.count = r.renamed]
        /\ UNCHANGED <<objType, mode, verts, elems, vsel, objects, objsel>>

(***************************************************************************)
(* _clean_vertex_groups.  A group is in use when some vertex of the object *)
(* is assigned to it; members holds only vertices of the object.  A        *)
(* keep_name of None or "" and a limit_to of None or [] are both false to  *)
(* the tests at lines 99 and 112, and are written <<>> here.               *)
(***************************************************************************)
\* allowed_names = set(limit_to) if limit_to else None
AllowedNames(limit_to) ==
    IF limit_to # <<>>
    THEN [limited |-> TRUE, names |-> {limit_to[i] : i \in 1..Len(limit_to)}]
    ELSE [limited |-> FALSE, names |-> {}]

CleanKeepsEveryGroup(gs, keep_name, limit_to) == gs

CleanVertexGroups(gs, keep_name, limit_to) ==
    IF keep_name # <<>> THEN SelectSeq(gs, LAMBDA vg : vg.name = keep_name)
    ELSE
        LET allowed_names == AllowedNames(limit_to) IN
        SelectSeq(gs, LAMBDA vg :
            \/ vg.members # {}
            \/ (allowed_names.limited /\ vg.name \notin allowed_names.names))

(***************************************************************************)
(* bpy.ops.mesh.separate(type="SELECTED").  The selected vertices, and the *)
(* edges and faces all of whose vertices are selected, are copied to a new *)
(* object that also carries every vertex group of the base object.  On the *)
(* base mesh the selected edges and faces are deleted, and a selected      *)
(* vertex is deleted unless an edge or face that stays still uses it.      *)
(***************************************************************************)
\* the base object, here named like its first vertex group
BaseName == <<"a">>

DefaultObjectName == <<"O", "b">>

ObjectNames(objs) == {BaseName} \cup {objs[k].name : k \in 1..Len(objs)}

Extracted(vs, es, sel) == {v \in sel : \A e \in es : v \in e => e \subseteq sel}

RestrictGroups(gs, keep) ==
    [i \in 1..Len(gs) |-> [gs[i] EXCEPT !.members = gs[i].members \cap keep]]

SeparatedObject(gs, sel, objs) ==
    [name |-> UniqueName(BaseName, ObjectNames(objs), DefaultObjectName),
     verts |-> sel,
     groups |-> RestrictGroups(gs, sel)]

\* new_obj.name = target_name
SetObjectName(objs, k, new_name) ==
    [objs EXCEPT ![k].name =
        UniqueName(new_name,
                   {BaseName} \cup {objs[j].name : j \in (1..Len(objs)) \ {k}},
                   DefaultObjectName)]

(***************************************************************************)
(* VGFILTER_OT_SeparateSelected.execute                                    *)
(***************************************************************************)
SelectedItems(its) == SelectSeq([k \in 1..Len(its) |-> k], LAMBDA k : its[k].selected)

\* lines 358-367 on the new object, objs[Len(objs)]
PostProcess(objs, target_name, rename_separated_meshes) ==
    LET k == Len(objs) IN
    IF rename_separated_meshes
    THEN LET named == SetObjectName(objs, k, target_name) IN
         [named EXCEPT ![k].groups = CleanVertexGroups(named[k].groups, target_name, <<>>)]
    ELSE [objs EXCEPT ![k].groups = CleanVertexGroups(objs[k].groups, <<>>, <<>>)]

RECURSIVE SeparateLoop(_, _, _, _, _)
\* lines 319-367, from the k-th selected item on; st is the state so far
SeparateLoop(k, selected_items, its, rename_separated_meshes, st) ==
    IF k > Len(selected_items) THEN st
    ELSE
        LET item == its[selected_items[k]] IN
        IF item.group_index >= Len(st.groups) THEN
            SeparateLoop(k + 1, selected_items, its, rename_separated_meshes,
                [st EXCEPT !.turns = Append(@,
                    [pos |-> selected_items[k], stale |-> TRUE, name |-> <<>>,
                     members |-> {}, made |-> 0])])
        ELSE
            LET vg == st.groups[item.group_index + 1]
                target_name == vg.name
                sel == VertexGroupSelect({}, st.groups, item.group_index)
            IN
            IF sel = {} THEN
                SeparateLoop(k + 1, selected_items, its, rename_separated_meshes,
                    [st EXCEPT !.vsel = {}, !.objsel = {0},
                               !.turns = Append(@,
                                  [pos |-> selected_items[k], stale |-> FALSE,
                                   name |-> target_name, members |-> {}, made |-> 0])])
            ELSE
                LET gone == Extracted(st.verts, st.elems, sel)
                    new_objs == PostProcess(
                        Append(st.objects, SeparatedObject(st.groups, sel, st.objects)),
                        target_name, rename_separated_meshes)
                IN
                SeparateLoop(k + 1, selected_items, its, rename_separated_meshes,
                    [st EXCEPT
                        !.verts = @ \ gone,
                        !.elems = {e \in @ : ~(e \subseteq sel)},
                        !.groups = RestrictGroups(@, st.verts \ gone),
                        !.vsel = sel \ gone,
                        !.objects = new_objs,
                        !.objsel = {0, Len(new_objs)},
                        !.separated = @ + 1,
                        !.separated_names = Append(@, target_name),
                        !.turns = Append(@,
                            [pos |-> selected_items[k], stale |-> FALSE,
                             name |-> target_name, members |-> vg.members,
                             made |-> Len(new_objs)])])

SeparateStatusAlwaysFinished(separated) == "FINISHED"

\* lines 381-386
SeparateStatus(separated) == IF separated = 0 THEN "CANCELLED" ELSE "FINISHED"

SeparateSelected(rename_separated_meshes) ==
    LET error == RequireEditMesh(objType, ContextMode)
        selected_items == SelectedItems(items)
    IN
    IF error # NoError THEN
        /\ ret' = [Ret("separate", "CANCELLED") EXCEPT !.report = error]
        /\ UNCHANGED <<objType, mode, groups, verts, elems, items, vsel, objects, objsel>>
    ELSE IF selected_items = <<>> THEN
        /\ ret' = Ret("separate", "CANCELLED")
        /\ UNCHANGED <<objType, mode, groups, verts, elems, items, vsel, objects, objsel>>
    ELSE
        \E st \in {SeparateLoop(1, selected_items, items, rename_separated_meshes,
                    [verts |-> verts, elems |-> elems, groups |-> groups, vsel |-> vsel,
                     objects |-> objects, objsel |-> objsel, separated |-> 0,
                     separated_names |-> <<>>, turns |-> <<>>])} :
        /\ Len(st.objects) <= MaxObjects
        /\ verts' = st.verts
        /\ elems' = st.elems
        /\ vsel' = st.vsel
        /\ objects' = st.objects
        /\ objsel' = {0}
        /\ groups' = CleanVertexGroups(st.groups, <<>>, st.separated_names)
        /\ mode' = ModeSet(ModeSet(mode, "OBJECT"), "EDIT")
        /\ ret' = [Ret("separate", SeparateStatus(st.separated)) EXCEPT
                      !.policy = rename_separated_meshes, !.count = st.separated,
                      !.names = st.separated_names, !.turns = st.turns,
                      !.nobj = Len(objects)]
        /\ UNCHANGED <<objType, items>>

(***************************************************************************)
(* The user, between two operator calls: switching the active object or    *)
(* the mode, and selecting vertices by hand in edit mode.                  *)
(***************************************************************************)
Contexts == {<<"MESH", "EDIT">>, <<"MESH", "OBJECT">>, <<"NONE", "OBJECT">>}

HostSetContext(c) ==
    /\ <<objType, mode>> # c
    /\ objType' = c[1]
    /\ mode' = c[2]
    /\ ret' = Ret("host", "")
    /\ UNCHANGED <<groups, verts, elems, items, vsel, objects, objsel>>

HostSelectVertices(S) ==
    /\ Poll
    /\ S \subseteq verts
    /\ S # vsel
    /\ vsel' = S
    /\ ret' = Ret("host", "")
    /\ UNCHANGED <<objType, mode, groups, verts, elems, items, objects, objsel>>

(***************************************************************************)
(* Initial states and inputs.                                              *)
(***************************************************************************)
Catalog ==
    << [name |-> <<"a">>, members |-> Verts],
       [name |-> <<"b">>, members |-> {1}],
       [name |-> <<"A", "b">>, members |-> {}] >>

ElemChoices == { {}, {{1, 2}} }

FilterTexts == { <<>>, <<"b">> }

Replacements == { <<"n">> }

Init ==
    /\ objType = "MESH"
    /\ mode = "EDIT"
    /\ groups = Catalog
    /\ verts = Verts
    /\ elems \in ElemChoices
    /\ items = <<>>
    /\ vsel = {}
    /\ objects = <<>>
    /\ objsel = {0}
    /\ ret = Ret("none", "")

Next ==
    \/ \E text \in FilterTexts : Filter(text)
    \/ \E item_index \in -1..Len(items) : ToggleSelect(item_index)
    \/ SelectAll
    \/ \E text \in FilterTexts, replacement \in Replacements :
          ReplaceInNames(text, replacement)
    \/ \E rename_separated_meshes \in BOOLEAN : SeparateSelected(rename_separated_meshes)
    \/ \E c \in Contexts : HostSetContext(c)
    \/ \E S \in SUBSET Verts : HostSelectVertices(S)

Spec == Init /\ [][Next]_vars

(***************************************************************************)
(* A second specification for the text handling of Filter and Rename: the  *)
(* catalog is any two or three distinct names of NamePool, the filter text *)
(* any text of at most MaxTextLen characters of TextAlphabet.  Names are   *)
(* replaced once per catalog, and filtered before and after.               *)
(***************************************************************************)
MaxTextLen == 2

TextAlphabet == {"b", "A", " "}

TextPool == UNION {[1..k -> TextAlphabet] : k \in 0..MaxTextLen}

NamePool == { <<"a">>, <<"A", "b">>, <<"b", "a">>, <<"B">>, <<"a", "B", "a">> }

TextCatalogs ==
    { [i \in 1..Len(names) |-> [name |-> names[i], members |-> {}]] :
        names \in { ns \in UNION {[1..k -> NamePool] : k \in 2..3} :
                      \A i, j \in 1..Len(ns) : i # j => ns[i] # ns[j] } }

SearchTexts == { <<>>, <<"b">>, <<" ", "A">> }

TextReplacements == { <<"n">>, <<"\\", "n">>, <<"\\">> }

InitText ==
    /\ objType = "MESH"
    /\ mode = "EDIT"
    /\ groups \in TextCatalogs
    /\ verts = Verts
    /\ elems = {}
    /\ items = <<>>
    /\ vsel = {}
    /\ objects = <<>>
    /\ objsel = {0}
    /\ ret = Ret("none", "")

NextText ==
    \/ \E text \in TextPool : Filter(text)
    \/ /\ GroupNames(groups) \subseteq NamePool
       /\ \E text \in SearchTexts, replacement \in TextReplacements :
             ReplaceInNames(text, replacement)

SpecText == InitText /\ [][NextText]_vars

(***************************************************************************)
(* Properties.  ret.op names the operator whose call produced a state, so  *)
(* a state predicate on ret speaks of the state right after that call, and *)
(* an action formula on ret' of the step that call took.                   *)
(***************************************************************************)
NamesOf(gs) == [i \in 1..Len(gs) |-> gs[i].name]

\* the members of the group at an item's cached index, if it is in the catalog
ItemMembers(item) ==
    IF item.group_index \in 0..(Len(groups) - 1)
    THEN groups[item.group_index + 1].members ELSE {}

\* C1: right after Filter the items are exactly the groups whose lower-cased
\* name contains the trimmed, lower-cased text (every group when that text
\* is empty), in catalog order, one per group, each with the group's name and
\* the group's own catalog index, and none selected.
C1_FilterExact ==
    ret.op = "filter" =>
        LET query == Lower(Strip(ret.text))
            matching == {p \in 1..Len(groups) :
                            query = <<>> \/ IsSubstring(query, Lower(groups[p].name))}
        IN  /\ \A k \in 1..Len(items) : items[k].group_index \in 0..(Len(groups) - 1)
            /\ {items[k].group_index + 1 : k \in 1..Len(items)} = matching
            /\ Len(items) = Cardinality(matching)
            /\ \A k \in 1..(Len(items) - 1) :
                  items[k].group_index < items[k + 1].group_index
            /\ \A k \in 1..Len(items) :
                  /\ items[k].name = groups[items[k].group_index + 1].name
                  /\ ~items[k].selected

\* a text with surrounding blanks and a capital selected some groups but not
\* all, one of them with a capital in its name and one whose position in the
\* list is not its catalog index
C1_Witness ==
    /\ ret.op = "filter"
    /\ Strip(ret.text) # ret.text
    /\ Lower(ret.text) # ret.text
    /\ Len(items) >= 1
    /\ Len(items) < Len(groups)
    /\ \E k \in 1..Len(items) : items[k].group_index # k - 1
    /\ \E k \in 1..Len(items) : Lower(items[k].name) # items[k].name

\* the step is a finished toggle of the item the call before it toggled
ToggledTwice ==
    /\ ret.op = "toggle" /\ ret.status = "FINISHED"
    /\ ret'.op = "toggle" /\ ret'.status = "FINISHED"
    /\ ret'.item = ret.item

\* C2 as stated: two toggles of one item in a row restore the item's flag and
\* the vertex selection there was before the first of them.
C2_ToggleTwiceRestoresSelection ==
    [][ToggledTwice =>
        /\ items'[ret.item + 1].selected = ret.preFlag
        /\ vsel' = ret.preSel]_vars

\* C2, amended: two toggles of one item in a row restore the item's flag and
\* leave every vertex outside the item's group selected as it was before the
\* first; the members of the group end selected if the flag was set before
\* the first toggle and deselected if it was not.
C2_ToggleTwice ==
    [][ToggledTwice =>
        LET members == ItemMembers(items[ret.item + 1]) IN
        /\ items'[ret.item + 1].selected = ret.preFlag
        /\ vsel' \ members = ret.preSel \ members
        /\ IF ret.preFlag THEN members \subseteq vsel' ELSE vsel' \cap members = {}]_vars

\* a second toggle in a row, of an item whose group has members, that left
\* other vertices selected
C2_Witness ==
    /\ ret.op = "toggle" /\ ret.status = "FINISHED" /\ ret.twice
    /\ ItemMembers(items[ret.item + 1]) # {}
    /\ vsel \ ItemMembers(items[ret.item + 1]) # {}

\* C3: right after a finished Select-all the selected vertices are exactly
\* the members of the groups the items' indices name, and every item is
\* selected.
C3_SelectAllUnion ==
    (ret.op = "select_all" /\ ret.status = "FINISHED") =>
        /\ vsel = UNION {ItemMembers(items[k]) : k \in 1..Len(items)}
        /\ \A k \in 1..Len(items) : items[k].selected

\* Select-all dropped a vertex that was selected before it and selected others
C3_Witness ==
    /\ ret.op = "select_all" /\ ret.status = "FINISHED"
    /\ ret.preSel \ vsel # {}
    /\ vsel # {}
    /\ Len(items) >= 2

\* the step is a Separate that passed its guards
SeparateRan == ret'.op = "separate" /\ ret'.turns # <<>>

\* C5: in a Separate that passed its guards, an item whose group has no
\* vertex at its turn gets no object and is not counted; the count is the
\* number of objects the call added; and when it is zero the call returns
\* cancelled and the objects are the ones there were.
C5_EmptyGroupsNotSeparated ==
    [][SeparateRan =>
        LET turns == ret'.turns
            made == {i \in 1..Len(turns) : turns[i].made # 0}
        IN  /\ \A i \in 1..Len(turns) : turns[i].members = {} => i \notin made
            /\ ret'.count = Cardinality(made)
            /\ Len(objects') = Len(objects) + ret'.count
            /\ SubSeq(objects', 1, Len(objects)) = objects
            /\ ret'.count = 0 => (ret'.status = "CANCELLED" /\ objects' = objects)]_vars

\* a Separate whose selected groups were all empty
C5_Witness ==
    /\ ret.op = "separate" /\ ret.status = "CANCELLED"
    /\ \E i \in 1..Len(ret.turns) : ~ret.turns[i].stale /\ ret.turns[i].members = {}

\* the turns of the last Separate whose group had a vertex
NonEmptyTurns == {i \in 1..Len(ret.turns) : ret.turns[i].members # {}}

OtherObjectNames(k) ==
    {BaseName} \cup {objects[j].name : j \in (1..Len(objects)) \ {k}}

SeparateMadeOneEach(named(_, _)) ==
    (ret.op = "separate" /\ ret.policy) =>
        /\ Len(objects) = ret.nobj + Cardinality(NonEmptyTurns)
        /\ \A i, j \in NonEmptyTurns : i # j => ret.turns[i].made # ret.turns[j].made
        /\ \A i \in NonEmptyTurns :
              LET t == ret.turns[i] IN
              /\ t.made \in (ret.nobj + 1)..Len(objects)
              /\ named(t.made, t.name)
              /\ objects[t.made].groups # <<>>
              /\ \A g \in 1..Len(objects[t.made].groups) :
                    objects[t.made].groups[g].name = t.name
              /\ t.members \cap verts = {} =>
                    \A p \in 1..Len(groups) : groups[p].name # t.name

NamedExactly(k, name) == objects[k].name = name

\* the name itself, or the host's numbered variant of it when another object
\* already has the name
NamedAfter(k, name) ==
    \/ objects[k].name = name
    \/ /\ name \in OtherObjectNames(k)
       /\ objects[k].name \notin OtherObjectNames(k)
       /\ SplitNumber(objects[k].name).left = SplitNumber(name).left
       /\ SplitNumber(objects[k].name).number > SplitNumber(name).number

PreconditionFails ==
    \/ objType # "MESH"
    \/ mode # "EDIT"
    \/ ret'.op = "toggle" /\ (ret'.item < 0 \/ ret'.item >= Len(items))
    \/ ret'.op = "replace" /\ Strip(ret'.text) = <<>>
    \/ ret'.op = "separate" /\ \A k \in 1..Len(items) : ~items[k].selected

\* C7: a call of Toggle-one, Select-all, Rename or Separate whose
\* precondition fails returns cancelled and changes neither the catalog, nor
\* the items and their flags, nor the vertex selection, nor the object
\* selection, nor the mode.
C7_FailedPreconditionChangesNothing ==
    [][(ret'.op \in {"toggle", "select_all", "replace", "separate"} /\ PreconditionFails) =>
        /\ ret'.status = "CANCELLED"
        /\ UNCHANGED <<objType, mode, groups, verts, elems, items, vsel, objects, objsel>>]_vars

\* a toggle of an item of the list that was cancelled in object mode
C7_Witness ==
    /\ ret.op = "toggle" /\ ret.status = "CANCELLED"
    /\ objType = "MESH" /\ mode = "OBJECT"
    /\ items # <<>> /\ vsel # {}

\* C8: a Separate that passed its guards removes from the base catalog
\* exactly the groups that are named in its separated names and have no
\* vertex left on the base object; every other group stays, in order.
C8_OnlySeparatedEmptyGroupsRemoved ==
    [][SeparateRan =>
        LET separated_names == {ret'.names[i] : i \in 1..Len(ret'.names)}
            stays == {p \in 1..Len(groups) :
                        \/ groups[p].name \notin separated_names
                        \/ groups[p].members \cap verts' # {}}
            kept == SelectSeq([p \in 1..Len(groups) |-> p], LAMBDA p : p \in stays)
        IN  NamesOf(groups') = [i \in 1..Len(kept) |-> groups[kept[i]].name]]_vars

\* C9: every item whose index is in the catalog shows the name of the group
\* at that index.
C9_ItemNamesInSync ==
    \A k \in 1..Len(items) :
        items[k].group_index < Len(groups) =>
            items[k].name = groups[items[k].group_index + 1].name

\* C10: a call of Toggle-one or Select-all returns in the mode it was
\* invoked in, whichever way it returns.
C10_ModePreserved ==
    [][ret'.op \in {"toggle", "select_all"} => mode' = mode]_vars

\* a finished toggle that changed the selection, back in edit mode
C10_Witness ==
    /\ ret.op = "toggle" /\ ret.status = "FINISHED"
    /\ mode = "EDIT"
    /\ vsel # ret.preSel

\* the replacement text put, as it is, in place of every match of search
LiteralReplace(search, replacement, name) == ReplaceFrom(search, replacement, name, 1)

\* C4: a Rename with a non-empty search text gives every group that an item
\* names and that contains the text, in any letter case, its name with each
\* occurrence replaced by the replacement text as it is; no other name
\* changes, and the count is the number of names that changed.
C4_RenameReplacesLiterally ==
    [][(ret'.op = "replace" /\ Poll /\ Strip(ret'.text) # <<>>) =>
        LET search == Strip(ret'.text)
            named == {items[k].group_index + 1 : k \in 1..Len(items)}
            touched == {p \in 1..Len(groups) :
                          p \in named /\ PatternSearch(search, groups[p].name)}
        IN  /\ ret'.status = "FINISHED"
            /\ Len(groups') = Len(groups)
            /\ \A p \in 1..Len(groups) :
                  groups'[p].name =
                      IF p \in touched
                      THEN LiteralReplace(search, ret'.repl, groups[p].name)
                      ELSE groups[p].name
            /\ ret'.count =
                  Cardinality({p \in 1..Len(groups) : groups'[p].name # groups[p].name})]_vars

====
